---- MODULE Spec2Model ----
(***************************************************************************)
(* Water-rocket telemetry link: the flight unit's command callback and     *)
(* flight-state machine (flight firmware v1.1), the Command Record         *)
(* checksum (Foguete/include/Structs.h and the ground unit's               *)
(* LaunchCommand), and the ground unit's telemetry reception callback.     *)
(*                                                                         *)
(* Several state machines share the module:                                *)
(*   Spec / SpecSd   the flight unit: the millisecond clock and the        *)
(*                   asynchronous command callback onEspNowReceive.        *)
(*                   Spec starts as setup() leaves the device (the SD      *)
(*                   initialisation is commented out, sdReady = false);    *)
(*                   SpecSd starts with the storage initialisation block   *)
(*                   of setup() enabled, so that sdReady is SD.begin's     *)
(*                   result.                                               *)
(*   SpecChecksum    a Command Record in flight: built from its fields,    *)
(*                   corrupted one byte at a time, validated by the        *)
(*                   flight unit.                                          *)
(*   SpecGround      the ground unit's reception callback.                 *)
(*   SpecLoop        the flight unit from power-on: setup(), then loop()   *)
(*                   statement by statement, the command callback          *)
(*                   interrupting it between two statements.               *)
(*   SpecLoopSd      loop() statement by statement with the storage        *)
(*                   initialisation block of setup() enabled, until the    *)
(*                   device restarts.                                      *)
(*   SpecRace        the same, logToSD taken line by line: the command     *)
(*                   callback runs in the task of the radio and can come   *)
(*                   between two lines of it.                              *)
(*   SpecSched       the rate gates on their own: updateSensorData and     *)
(*                   transmitData called at any time against the           *)
(*                   millisecond clock.                                    *)
(*   SpecFusion      updateSensorData on its own, called at any time from  *)
(*                   the end of setup() on, also across the overflow of    *)
(*                   the millisecond counter.                              *)
(*   SpecLink        the link on its own: transmitData and the ground      *)
(*                   unit's sendFlightCommand called at any time, and the  *)
(*                   last telemetry packet delivered to the ground unit.   *)
(*   SpecSeq         the command path: sendFlightCommand called at any     *)
(*                   time, also when the sequence counter is about to      *)
(*                   wrap, and the last Command Record delivered to the    *)
(*                   flight unit's callback.                               *)
(***************************************************************************)
EXTENDS Integers, Sequences, FiniteSets

VARIABLES
    \* ---- flight unit (flight firmware v1.1) ----
    clock,               \* millis(), an unsigned long (32 bits)
    ticks,               \* number of clock advances so far (bounds the run)
    currentFlightState,
    currentLogFilename,
    sdReady,
    isFlightLogging,
    flightStartTime,
    sdLog,               \* the storage collaborator's operations, in order
    reportedDuration,    \* the flightDuration printed by endFlightLog
    serialOut,           \* the last diagnostic printed by the callback
    rx,                  \* the last buffer handed to the flight callback
    \* ---- flight unit: loop(), rate gates, transport ----
    pc,                  \* 0 before setup(), else the next statement of loop()
    lastSensorReadTime,
    lastTransmissionTime,
    lastUpdateTime,      \* the static local of updateSensorData
    sensorData,
    esp,                 \* the ESP-NOW library's state on the flight unit
    air,                 \* the last packet handed to esp_now_send
    ev,                  \* the last call of a rate-gated function
    loggedRow,           \* the last row written by logToSD
    logCall,             \* how far the call of logToSD in progress has got
    \* ---- a Command Record in flight ----
    cmd,                 \* its 12 bytes, 0..11
    cmdSent,             \* the bytes as the sender built them
    chk,                 \* the flight unit's last validation of cmd
    \* ---- ground unit ----
    dadosRecebidos,
    dadosAtualizados,
    grx,                 \* the last buffer handed to the ground callback
    gpeer,               \* the broadcast peer is known to the ground unit
    nextSequenceId,
    gtx                  \* the last call of sendFlightCommand

flightVars == <<clock, ticks, currentFlightState, currentLogFilename, sdReady,
                isFlightLogging, flightStartTime, sdLog, reportedDuration,
                serialOut, rx>>
loopVars   == <<pc, lastSensorReadTime, lastTransmissionTime, lastUpdateTime,
                sensorData, esp, air, ev, loggedRow, logCall>>
cmdVars    == <<cmd, cmdSent, chk>>
groundVars == <<dadosRecebidos, dadosAtualizados, grx>>
gtxVars    == <<gpeer, nextSequenceId, gtx>>
vars       == <<flightVars, loopVars, cmdVars, groundVars, gtxVars>>

----------------------------------------------------------------------------
(* Bounds of the model *)

\* clock advances in one behaviour
MaxTicks == 2
\* command kinds 0..MaxCommandType are received (4 is the last enumerator)
MaxCommandType == 5
\* sequence identifiers 0..MaxSequenceId are received
MaxSequenceId == 1
\* storage operations recorded in one behaviour
MaxSdOps == 2
\* bytes of a Command Record corrupted in flight
MaxCorruptions == 1
\* each telemetry field takes the values 0..MaxField
MaxField == 1

----------------------------------------------------------------------------
(* Program constants *)

\* An unsigned long (32 bits) is kept as two 16-bit halves, [hi, lo], its
\* value hi * 2^16 + lo: arithmetic on it is modulo 2^32.
HalfWord == 65536
\* uint8_t arithmetic is modulo 2^8
TwoTo8 == 256

\* enum CommandType
NO_COMMAND    == 0
START_FLIGHT  == 1
END_FLIGHT    == 2
ABORT_MISSION == 3
RESET_SYSTEM  == 4

\* enum FlightState
GROUND_STATE  == "GROUND_STATE"
PRE_FLIGHT    == "PRE_FLIGHT"
FLIGHT_ACTIVE == "FLIGHT_ACTIVE"
POST_FLIGHT   == "POST_FLIGHT"
FlightState   == {GROUND_STATE, PRE_FLIGHT, FLIGHT_ACTIVE, POST_FLIGHT}

\* sizeof(ControlCommand), fixed by the static_assert
ControlCommandSize == 12
\* offsetof(ControlCommand, checksum): type 0..3, timestamp 4..7,
\* sequenceId 8..9, checksum 10, one byte of tail padding 11
ChecksumOffset == 10
\* sizeof(checksum)
ChecksumSize == 1

\* String currentLogFilename = "": the empty string
NoFile == <<>>

\* const unsigned long SENSOR_READ_INTERVAL, TRANSMISSION_INTERVAL (ms)
SENSOR_READ_INTERVAL  == 100
TRANSMISSION_INTERVAL == 500

----------------------------------------------------------------------------
(* The Command Record and its checksum *)

Byte == 0..(TwoTo8 - 1)

RECURSIVE Pow256(_)
Pow256(k) == IF k = 0 THEN 1 ELSE TwoTo8 * Pow256(k - 1)

\* byte k of the little-endian representation of n
ByteOf(n, k) == (n \div Pow256(k)) % TwoTo8

\* The 12 bytes of a record with the given fields, as the ESP32 lays the
\* struct out (little-endian, the enum an int): type at 0..3, timestamp at
\* 4..7, sequenceId at 8..9, checksum at 10, tail padding at 11.
CommandBytes(type, timestamp, sequenceId, checksum, pad) ==
    [i \in 0..(ControlCommandSize - 1) |->
        CASE i \in 0..3 -> ByteOf(type, i)
          [] i \in 4..7 -> ByteOf(timestamp, i - 4)
          [] i \in 8..9 -> ByteOf(sequenceId, i - 8)
          [] i = ChecksumOffset -> checksum
          [] OTHER -> pad]

\* the fields read back from the bytes (memcpy into the struct)
\* (the enum is a signed int; the timestamp an unsigned long, in halves)
TypeOf(data) ==
    data[0] + TwoTo8 * data[1] + Pow256(2) * data[2]
    + Pow256(3) * (IF data[3] >= 128 THEN data[3] - TwoTo8 ELSE data[3])
TimestampOf(data)  == [hi |-> data[6] + TwoTo8 * data[7], lo |-> data[4] + TwoTo8 * data[5]]
SequenceIdOf(data) == data[8] + TwoTo8 * data[9]
ChecksumOf(data)   == data[ChecksumOffset]

\* the sum of data[0..n-1] in a uint8_t
RECURSIVE SumBytes(_, _)
SumBytes(data, n) == IF n = 0 THEN 0 ELSE (SumBytes(data, n - 1) + data[n - 1]) % TwoTo8

\* the loop bound of ControlCommand::calculateChecksum, changed to
\* sizeof(ControlCommand) - sizeof(timestamp): the sequence bytes are skipped
ChecksumLoopBound_Short == ControlCommandSize - 4

\* i < sizeof(ControlCommand) - sizeof(checksum)
ChecksumLoopBound == ControlCommandSize - ChecksumSize

\* ControlCommand::calculateChecksum
calculateChecksum(data) == SumBytes(data, ChecksumLoopBound)

\* ControlCommand::isValid
isValid(data) == ChecksumOf(data) = calculateChecksum(data)

\* LaunchCommand::calculateChecksum (ground unit): the low byte of the kind,
\* the four timestamp bytes and the two sequence bytes, summed in a uint8_t
LaunchChecksum(type, timestamp, sequenceId) ==
    ( (type % TwoTo8)
    + (timestamp % TwoTo8) + ((timestamp \div Pow256(1)) % TwoTo8)
    + ((timestamp \div Pow256(2)) % TwoTo8) + ((timestamp \div Pow256(3)) % TwoTo8)
    + (sequenceId % TwoTo8) + ((sequenceId \div Pow256(1)) % TwoTo8) ) % TwoTo8

----------------------------------------------------------------------------
(* The flight unit: clock, storage collaborator, flight-state machine *)

\* an unsigned long from its halves
U32(hi, lo) == [hi |-> hi, lo |-> lo]

\* a + b in an unsigned long
Add32(a, b) ==
    [hi |-> (a.hi + b.hi + ((a.lo + b.lo) \div HalfWord)) % HalfWord,
     lo |-> (a.lo + b.lo) % HalfWord]

\* a - b in an unsigned long
Sub32(a, b) ==
    [hi |-> (a.hi - b.hi - (IF a.lo < b.lo THEN 1 ELSE 0) + 2 * HalfWord) % HalfWord,
     lo |-> (a.lo - b.lo + HalfWord) % HalfWord]

\* a / 1000, truncating: 2^16 = 65 * 1000 + 536
Div1000(a) == a.hi * 65 + ((a.hi * 536 + a.lo) \div 1000)

\* a - b without the wrap-around, in thousands (negative when a < b)
Div1000_Signed(a, b) ==
    IF a.hi > b.hi \/ (a.hi = b.hi /\ a.lo >= b.lo)
    THEN Div1000(Sub32(a, b))
    ELSE 0 - Div1000(Sub32(b, a))

\* the times by which the millisecond clock advances between two events:
\* five seconds, and all but two seconds of the counter's range (2^32 - 2000)
ClockSteps == {U32(0, 5000), U32(HalfWord - 1, HalfWord - 2000)}

\* the timestamp that makes the bytes before the checksum field sum to 0
ZeroSumTimestamp(type, sequenceId) ==
    (TwoTo8 - ((type + sequenceId) % TwoTo8)) % TwoTo8

\* The 12-byte buffers delivered to the flight unit, for every kind up to
\* MaxCommandType:
\*   - for every sequence identifier up to MaxSequenceId, the record whose
\*     timestamp makes the bytes before the checksum field sum to 0, with
\*     the checksum the ground unit computes (0);
\*   - the record with timestamp 5000 and the checksum the ground unit
\*     computes, and the same record with that checksum plus one.
RxCommands ==
    UNION { { CommandBytes(t, ZeroSumTimestamp(t, s), s,
                           LaunchChecksum(t, ZeroSumTimestamp(t, s), s), 0) :
                s \in 0..MaxSequenceId }
            \cup
            { CommandBytes(t, 5000, 0, (LaunchChecksum(t, 5000, 0) + d) % TwoTo8, 0) :
                d \in {0, 1} } :
            t \in 0..MaxCommandType }

\* the buffers of another length: their first bytes are those of a start
\* or of an end command
RxOtherLengths == {0, ControlCommandSize - 1, ControlCommandSize + 1}
RxOtherData ==
    { CommandBytes(t, ZeroSumTimestamp(t, 0), 0, 0, 0) : t \in {START_FLIGHT, END_FLIGHT} }

\* generateLogFilename: "/flight_log_%06lu.csv" of millis() / 1000
generateLogFilename == <<"/flight_log_", Div1000(clock), ".csv">>

\* the clock advances (the device runs on between two events)
Tick(d) ==
    /\ ticks < MaxTicks
    /\ clock' = Add32(clock, d)
    /\ ticks' = ticks + 1
    /\ UNCHANGED <<currentFlightState, currentLogFilename, sdReady, isFlightLogging,
                   flightStartTime, sdLog, reportedDuration, serialOut, rx>>
    /\ UNCHANGED <<lastSensorReadTime, lastTransmissionTime, lastUpdateTime,
                   sensorData, esp, air, ev, loggedRow, logCall>>
    /\ UNCHANGED <<cmdVars, groundVars, gtxVars>>

\* startNewFlightLog with the flight state set before the file is opened
startNewFlightLog_StateFirst(opened) ==
    IF ~sdReady
    THEN /\ serialOut' = "Cartao SD nao esta pronto!"
         /\ UNCHANGED <<currentFlightState, currentLogFilename, isFlightLogging,
                        flightStartTime, sdLog>>
    ELSE /\ Len(sdLog) < MaxSdOps
         /\ currentLogFilename' = generateLogFilename
         /\ sdLog' = Append(sdLog, [op |-> "begin", opened |-> opened])
         /\ currentFlightState' = FLIGHT_ACTIVE
         /\ isFlightLogging' = TRUE
         /\ flightStartTime' = clock
         /\ serialOut' = IF opened THEN "Novo log de voo iniciado"
                                   ELSE "Erro ao criar arquivo de log de voo."

\* startNewFlightLog; opened is the result of SD.open
startNewFlightLog(opened) ==
    IF ~sdReady
    THEN /\ serialOut' = "Cartao SD nao esta pronto!"
         /\ UNCHANGED <<currentFlightState, currentLogFilename, isFlightLogging,
                        flightStartTime, sdLog>>
    ELSE /\ Len(sdLog) < MaxSdOps
         /\ currentLogFilename' = generateLogFilename
         /\ sdLog' = Append(sdLog, [op |-> "begin", opened |-> opened])
         /\ IF opened
            THEN /\ currentFlightState' = FLIGHT_ACTIVE
                 /\ isFlightLogging' = TRUE
                 /\ flightStartTime' = clock
                 /\ serialOut' = "Novo log de voo iniciado"
            ELSE /\ serialOut' = "Erro ao criar arquivo de log de voo."
                 /\ UNCHANGED <<currentFlightState, isFlightLogging, flightStartTime>>

\* the flightDuration of endFlightLog with the subtraction not wrapped
flightDuration_NoWrap == Div1000_Signed(clock, flightStartTime)

\* unsigned long flightDuration = (millis() - flightStartTime) / 1000
flightDuration == Div1000(Sub32(clock, flightStartTime))

\* endFlightLog putting the state back to GROUND_STATE
StateAfterFlight_Ground == GROUND_STATE

\* currentFlightState = POST_FLIGHT, the state endFlightLog sets
StateAfterFlight == POST_FLIGHT

\* endFlightLog clearing isFlightLogging only when the end-of-flight marker
\* could be written
endFlightLog_LoggingUntilMarked(opened) ==
    IF ~isFlightLogging
    THEN UNCHANGED <<currentFlightState, currentLogFilename, isFlightLogging,
                     sdLog, reportedDuration, serialOut>>
    ELSE /\ Len(sdLog) < MaxSdOps
         /\ currentFlightState' = StateAfterFlight
         /\ isFlightLogging' = ~opened
         /\ sdLog' = Append(sdLog, [op |-> "end", opened |-> opened])
         /\ reportedDuration' = Append(reportedDuration, flightDuration)
         /\ serialOut' = "Voo finalizado"
         /\ currentLogFilename' = NoFile

\* endFlightLog; opened is the result of SD.open
endFlightLog(opened) ==
    IF ~isFlightLogging
    THEN UNCHANGED <<currentFlightState, currentLogFilename, isFlightLogging,
                     sdLog, reportedDuration, serialOut>>
    ELSE /\ Len(sdLog) < MaxSdOps
         /\ currentFlightState' = StateAfterFlight
         /\ isFlightLogging' = FALSE
         /\ sdLog' = Append(sdLog, [op |-> "end", opened |-> opened])
         /\ reportedDuration' = Append(reportedDuration, flightDuration)
         /\ serialOut' = "Voo finalizado"
         /\ currentLogFilename' = NoFile

\* the START_FLIGHT guard of onEspNowReceive, left out
StartAccepted_Always(state) == TRUE

\* case START_FLIGHT: if (currentFlightState == GROUND_STATE)
StartAccepted(state) == state = GROUND_STATE

\* case END_FLIGHT: if (currentFlightState == FLIGHT_ACTIVE)
EndAccepted(state) == state = FLIGHT_ACTIVE

\* the switch of onEspNowReceive with ABORT_MISSION falling into END_FLIGHT
Dispatch_AbortEnds(type) ==
    CASE type = START_FLIGHT -> "start"
      [] type \in {END_FLIGHT, ABORT_MISSION} -> "end"
      [] OTHER -> "default"

\* switch (command.type)
Dispatch(type) ==
    CASE type = START_FLIGHT -> "start"
      [] type = END_FLIGHT -> "end"
      [] OTHER -> "default"

\* the length check of the command callback, accepting longer buffers too
CommandLengthAccepted_AtLeast(len) == len >= ControlCommandSize

\* if (len == sizeof(ControlCommand))
CommandLengthAccepted(len) == len = ControlCommandSize

\* the callback acting only on records whose sequence identifier is 0
CommandAccepted_FirstSequenceOnly(data) == SequenceIdOf(data) = 0

\* what the callback asks of a 12-byte record before it acts on it: nothing
\* (after the memcpy it goes straight to the switch; neither isValid() nor
\* command.sequenceId is consulted)
CommandAccepted(data) == TRUE

\* onEspNowReceive of the flight unit, called with len bytes, the first 12
\* of them data; opened is the result of SD.open, should it be called
onEspNowReceive(len, data, opened) ==
    /\ rx' = [seen |-> TRUE, len |-> len, type |-> TypeOf(data),
              seq |-> SequenceIdOf(data), valid |-> isValid(data),
              pre |-> currentFlightState]
    /\ IF CommandLengthAccepted(len) /\ CommandAccepted(data)
       THEN CASE Dispatch(TypeOf(data)) = "start" ->
                   IF StartAccepted(currentFlightState)
                   THEN /\ startNewFlightLog(opened)
                        /\ UNCHANGED reportedDuration
                   ELSE UNCHANGED <<currentFlightState, currentLogFilename,
                                    isFlightLogging, flightStartTime, sdLog,
                                    reportedDuration, serialOut>>
              [] Dispatch(TypeOf(data)) = "end" ->
                   IF EndAccepted(currentFlightState)
                   THEN /\ endFlightLog(opened)
                        /\ UNCHANGED flightStartTime
                   ELSE UNCHANGED <<currentFlightState, currentLogFilename,
                                    isFlightLogging, flightStartTime, sdLog,
                                    reportedDuration, serialOut>>
              [] OTHER ->
                   /\ serialOut' = "Comando nao reconhecido"
                   /\ UNCHANGED <<currentFlightState, currentLogFilename,
                                  isFlightLogging, flightStartTime, sdLog,
                                  reportedDuration>>
       ELSE UNCHANGED <<currentFlightState, currentLogFilename, isFlightLogging,
                        flightStartTime, sdLog, reportedDuration, serialOut>>
    /\ UNCHANGED <<clock, ticks, sdReady>>
    /\ UNCHANGED <<loopVars, cmdVars, groundVars, gtxVars>>

\* a packet arrives at the flight unit: the transport calls the callback
Receive ==
    \/ \E data \in RxCommands, opened \in BOOLEAN :
          onEspNowReceive(ControlCommandSize, data, opened)
    \/ \E len \in RxOtherLengths, data \in RxOtherData :
          onEspNowReceive(len, data, TRUE)

\* the clock advances by one of the steps
Advance == UNCHANGED pc /\ \E d \in ClockSteps : Tick(d)

----------------------------------------------------------------------------
(* The flight unit: Telemetry Record, rate gates, transport, loop() *)

\* sizeof(SensorData) of the ground unit: 9 + 2 + 1 floats, GPSData's 3
\* floats and 6 ints, and the timestamp, packed
SensorDataSize == 4 * (9 + 2 + 1 + 3 + 6 + 1)

\* sizeof(SensorData) of the flight unit's Structs.h (VoltageData has two floats)
FlightSensorDataSize == 4 * (9 + 2 + 2 + 3 + 6 + 1)

\* the members of SensorData in declaration order, each with its size in
\* bytes (the structs are packed): flight unit's Structs.h
FlightSensorLayout ==
    << [member |-> "acelerometro", fields |-> <<"accX", "accY", "accZ", "gyroX", "gyroY",
                                                "gyroZ", "temp", "pitch", "roll">>, size |-> 4 * 9],
       [member |-> "altimetro", fields |-> <<"pressure", "altitude">>, size |-> 4 * 2],
       [member |-> "tensao", fields |-> <<"voltage_base", "voltage_rocket">>, size |-> 4 * 2],
       [member |-> "gps", fields |-> <<"latitude", "longitude", "altitude", "day", "month",
                                       "year", "hour", "minute", "second">>, size |-> 4 * 9],
       [member |-> "timestamp", fields |-> <<"timestamp">>, size |-> 4 * 1] >>

\* the same, ground unit's Structs.h
GroundSensorLayout ==
    << [member |-> "acelerometro", fields |-> <<"accX", "accY", "accZ", "gyroX", "gyroY",
                                                "gyroZ", "temp", "pitch", "roll">>, size |-> 4 * 9],
       [member |-> "altimetro", fields |-> <<"pressure", "altitude">>, size |-> 4 * 2],
       [member |-> "tensao", fields |-> <<"voltage_rocket">>, size |-> 4 * 1],
       [member |-> "gps", fields |-> <<"latitude", "longitude", "altitude", "day", "month",
                                       "year", "hour", "minute", "second">>, size |-> 4 * 9],
       [member |-> "timestamp", fields |-> <<"timestamp">>, size |-> 4 * 1] >>

\* sizeof of a packed struct: the sum of its members' sizes
RECURSIVE SizeOfLayout(_)
SizeOfLayout(layout) ==
    IF layout = <<>> THEN 0 ELSE Head(layout).size + SizeOfLayout(Tail(layout))

\* a < b in unsigned long
Lt32(a, b) == a.hi < b.hi \/ (a.hi = b.hi /\ a.lo < b.lo)

\* the unit in the last place of the float nearest to an unsigned long with
\* the given upper half: 1 below 2^24, then doubling with every binary place
RECURSIVE UlpOf(_)
UlpOf(hi) == IF hi < 256 THEN 1 ELSE 2 * UlpOf(hi \div 2)

\* float f = u (unsigned long to float, round to nearest, ties to even): the
\* value of the float, in halves; its upper half is 2^16 when u rounds to 2^32
ToFloat(u) ==
    LET ulp  == UlpOf(u.hi)
        q    == u.lo \div ulp
        r    == u.lo % ulp
        up   == 2 * r > ulp \/ (2 * r = ulp /\ q % 2 = 1)
        lo   == (IF up THEN q + 1 ELSE q) * ulp
    IN  [hi |-> u.hi + (lo \div HalfWord), lo |-> lo % HalfWord]

\* SensorData sensorData = {}
\* (of the acelerometro block: sample stands for the seven readings of the
\* MPU6050, pitch and roll are the fused angles in whole degrees; the
\* globals pitch and roll are assigned where they are copied into the
\* record and nowhere else, and start at 0 as the record does, so the
\* record's members stand for them)
ZeroSensorData ==
    [acelerometro |-> [sample |-> 0, pitch |-> 0, roll |-> 0], altimetro |-> 0,
     tensao |-> [voltage_base |-> 0, voltage_rocket |-> 0],
     gps |-> <<0, 0, 0, 0, 0, 0>>, timestamp |-> U32(0, 0)]

\* the integers of the initialiser of sensorData.gps, in the order written
\* (they initialise day, month, year, hour, minute, second in that order)
FixedGps == <<2025, 6, 2, 20, 30, 49>>

\* what the position collaborator reports, by component: the values the
\* initialiser of sensorData.gps stands in for (gps.date.year(),
\* gps.date.month(), gps.date.day(), gps.time.hour(), gps.time.minute(),
\* gps.time.second())
UtcDateTime ==
    [year |-> FixedGps[1], month |-> FixedGps[2], day |-> FixedGps[3],
     hour |-> FixedGps[4], minute |-> FixedGps[5], second |-> FixedGps[6]]

\* the integer members of GPSData, in declaration order
GpsIntegerFields == SubSeq(FlightSensorLayout[4].fields, 4, 9)

\* tensaoReal, in millivolts: (leituraADC / 4095.0) * VREF * ADC_MULTIPLIER
\* with VREF = 3.3 and ADC_MULTIPLIER = 2.0
Voltage(leituraADC) == (leituraADC * 3300 * 2) \div 4095

\* g.gyro.x and g.gyro.y of a reading, in rad/s
GyroX(sample) == sample
GyroY(sample) == sample

\* accPitch and accRoll of a reading, in degrees
AccPitch(sample) == 50
AccRoll(sample)  == 50 * sample

\* COMPLEMENTARY_FILTER_ALPHA = 0.98, in hundredths
ALPHA_PERCENT == 98

\* RAD_TO_DEG, in thousandths of a degree per radian
RAD_TO_DEG_MILLI == 57296

\* an unsigned long modulo 1000: 2^16 = 536 modulo 1000
Mod1000(a) == (a.hi * 536 + a.lo) % 1000

\* n * RAD_TO_DEG_MILLI / 1000, truncated, without leaving the 32-bit integers
ToDegrees(n) ==
    (n \div 1000) * RAD_TO_DEG_MILLI + ((n % 1000) * RAD_TO_DEG_MILLI) \div 1000

\* the angle a rate given in rad/s sweeps in dt milliseconds, taken as
\* degrees without the conversion: rate * dt
DegreesTurned_NoConversion(rate, dt) ==
    rate * Div1000(dt) + (rate * Mod1000(dt)) \div 1000

\* g.gyro.x * dt * RAD_TO_DEG with dt = (currentTime - lastUpdateTime) /
\* 1000.0: the whole seconds and the milliseconds of dt converted in turn,
\* each truncated to whole degrees
DegreesTurned(rate, dt) ==
    rate * ToDegrees(Div1000(dt)) + (rate * Mod1000(dt) * RAD_TO_DEG_MILLI) \div 1000000

\* COMPLEMENTARY_FILTER_ALPHA * x, truncated, without leaving the 32-bit integers
MulAlpha(x) == ALPHA_PERCENT * (x \div 100) + (ALPHA_PERCENT * (x % 100)) \div 100

\* the complementary filter with the rate integrated as it is read, in
\* rad/s, into an angle kept in degrees
Fuse_RateAsCarried(angle, rate, dt, accAngle) ==
    MulAlpha(angle + DegreesTurned_NoConversion(rate, dt))
        + ((100 - ALPHA_PERCENT) * accAngle) \div 100

\* the complementary filter:
\* ALPHA * (angle + rate * dt * RAD_TO_DEG) + (1 - ALPHA) * accAngle
Fuse(angle, rate, dt, accAngle) ==
    MulAlpha(angle + DegreesTurned(rate, dt)) + ((100 - ALPHA_PERCENT) * accAngle) \div 100

\* currentTime - last with the subtraction saturating at 0 instead of
\* wrapping around
Elapsed_NoWrap(now, last) == IF Lt32(now, last) THEN U32(0, 0) ELSE Sub32(now, last)

\* currentTime - lastSensorReadTime, currentTime - lastTransmissionTime
Elapsed(now, last) == Sub32(now, last)

\* a rate gate that lets every call through
GateOpen_Always(now, last, interval) == TRUE

\* the negation of: if (currentTime - last < INTERVAL) return
GateOpen(now, last, interval) == ~Lt32(Elapsed(now, last), U32(0, interval))

\* no buffer has been handed to the command callback
NoBuffer == [seen |-> FALSE, len |-> 0, type |-> NO_COMMAND, seq |-> 0,
             valid |-> FALSE, pre |-> GROUND_STATE]

\* no packet has been handed to esp_now_send
NoPacket == [sent |-> FALSE, len |-> 0, data |-> ZeroSensorData]

\* what the last call of a rate-gated function did
\* (mark alternates between 0 and 1 from one call to the next; fired: the
\* gate let the call through; add: the outcome of esp_now_add_peer, if
\* called; sent: esp_now_send was called; result: what it answered)
NoEvent == [fn |-> "none", mark |-> 0, fired |-> FALSE, add |-> "none",
            sent |-> FALSE, result |-> "none"]

\* no call of logToSD is in progress
\* (at: "idle", "checked" once the call is past its first line, "opened"
\* once SD.open has returned a file; file: the name last handed to SD.open)
NoLogCall == [at |-> "idle", file |-> NoFile]

\* the readings taken in one call of updateSensorData: that of the ADC (12
\* bits) and that of the MPU6050 and the BMP280
Readings == { [adc |-> (4095 * k) \div MaxField, sample |-> k] : k \in 1..MaxField }

\* updateSensorData; leituraADC is the ADC reading, sample the readings of
\* the MPU6050 and of the BMP280
updateSensorData(leituraADC, sample) ==
    LET currentTime == clock
        due         == GateOpen(currentTime, lastSensorReadTime, SENSOR_READ_INTERVAL)
        withTensao  == [sensorData EXCEPT !.tensao.voltage_rocket = Voltage(leituraADC)]
        dt          == Elapsed(currentTime, lastUpdateTime)
    IN  /\ ev' = [fn |-> "update", mark |-> 1 - ev.mark, fired |-> due,
                  add |-> "none", sent |-> FALSE, result |-> "none"]
        /\ IF ~due
           THEN /\ sensorData' = withTensao
                /\ UNCHANGED <<lastSensorReadTime, lastUpdateTime>>
           ELSE /\ lastSensorReadTime' = currentTime
                /\ lastUpdateTime' = currentTime
                /\ IF lastUpdateTime = U32(0, 0)
                   THEN sensorData' = withTensao
                   ELSE sensorData' =
                          [withTensao EXCEPT
                              !.acelerometro =
                                  [sample |-> sample,
                                   pitch |-> Fuse(sensorData.acelerometro.pitch,
                                                  GyroX(sample), dt, AccPitch(sample)),
                                   roll |-> Fuse(sensorData.acelerometro.roll,
                                                 GyroY(sample), dt, AccRoll(sample))],
                              !.altimetro = sample,
                              !.timestamp = ToFloat(currentTime),
                              !.gps = FixedGps]

\* the records updateSensorData leaves in sensorData: the initial one with
\* a voltage, and those assembled from a reading at 1000 ms and at 2^24 + 1 ms
FlightRecords ==
    { [ZeroSensorData EXCEPT !.tensao.voltage_rocket = Voltage(r.adc)] : r \in Readings }
    \cup
    { [ZeroSensorData EXCEPT !.tensao.voltage_rocket = Voltage(r.adc),
                             !.acelerometro = [sample |-> r.sample, pitch |-> 0, roll |-> 0],
                             !.altimetro = r.sample,
                             !.timestamp = ToFloat(t), !.gps = FixedGps] :
        r \in Readings, t \in {U32(0, 1000), U32(256, 1)} }

\* esp_err_t values
ESP_OK                  == "ESP_OK"
ESP_ERR_ESPNOW_NOT_INIT == "ESP_ERR_ESPNOW_NOT_INIT"
ESP_ERR_ESPNOW_ARG      == "ESP_ERR_ESPNOW_ARG"
ESP_ERR_ESPNOW_NO_MEM   == "ESP_ERR_ESPNOW_NO_MEM"
ESP_ERR_ESPNOW_INTERNAL == "ESP_ERR_ESPNOW_INTERNAL"

\* the results of esp_now_send
SendResults == {ESP_OK, ESP_ERR_ESPNOW_NOT_INIT, ESP_ERR_ESPNOW_ARG,
                ESP_ERR_ESPNOW_NO_MEM, ESP_ERR_ESPNOW_INTERNAL}

\* the library not initialised: no callback, no peer
EspDown == [init |-> FALSE, sendCb |-> FALSE, recvCb |-> FALSE, peer |-> FALSE,
            restart |-> FALSE]

\* ESP.restart() has been called: the device is about to reboot
EspRestart == [EspDown EXCEPT !.restart = TRUE]

\* the library answering ESP_ERR_ESPNOW_NOT_INIT with its peers still
\* registered
EspAtSend_KeepsPeer(e, result) ==
    IF result = ESP_ERR_ESPNOW_NOT_INIT THEN [EspDown EXCEPT !.peer = e.peer] ELSE e

\* the library as the send that answered result found it: it answers
\* ESP_ERR_ESPNOW_NOT_INIT when it is not initialised, and then holds
\* neither callbacks nor peers
EspAtSend(e, result) == IF result = ESP_ERR_ESPNOW_NOT_INIT THEN EspDown ELSE e

\* setupEspNow on the library state e: esp_now_init (initOk), then
\* esp_now_register_send_cb, then esp_now_add_peer (peerOk)
setupEspNow(e, initOk, peerOk) ==
    IF ~initOk
    THEN EspRestart
    ELSE [e EXCEPT !.init = TRUE, !.sendCb = TRUE, !.peer = (e.peer \/ peerOk)]

\* handleCommunicationErrors re-initialising on every result but ESP_OK
Reinitialises_AnyError(result) == result # ESP_OK

\* case ESP_ERR_ESPNOW_NOT_INIT: setupEspNow()
Reinitialises(result) == result = ESP_ERR_ESPNOW_NOT_INIT

\* handleCommunicationErrors(result), the library in state e
\* (every case prints a line on the serial port, which is not modelled)
handleCommunicationErrors(e, result, initOk, peerOk) ==
    esp' = IF Reinitialises(result) THEN setupEspNow(e, initOk, peerOk) ELSE e

\* transmitData never giving the send up
SendAborted_Never(peerExists, addOk) == FALSE

\* transmitData gives the send up: the peer does not exist and
\* esp_now_add_peer fails
SendAborted(peerExists, addOk) == ~peerExists /\ ~addOk

\* transmitData; addOk is the result of esp_now_add_peer, result that of
\* esp_now_send, initOk and peerOk those of the calls of setupEspNow
transmitData(addOk, result, initOk, peerOk) ==
    LET currentTime == clock
        due         == GateOpen(currentTime, lastTransmissionTime, TRANSMISSION_INTERVAL)
        added       == IF esp.peer THEN "none" ELSE IF addOk THEN "ok" ELSE "failed"
    IN  IF ~due
        THEN /\ ev' = [fn |-> "transmit", mark |-> 1 - ev.mark, fired |-> FALSE,
                       add |-> "none", sent |-> FALSE, result |-> "none"]
             /\ UNCHANGED <<lastTransmissionTime, esp, air>>
        ELSE /\ lastTransmissionTime' = currentTime
             /\ IF SendAborted(esp.peer, addOk)
                THEN /\ ev' = [fn |-> "transmit", mark |-> 1 - ev.mark, fired |-> TRUE,
                               add |-> added, sent |-> FALSE, result |-> "none"]
                     /\ UNCHANGED <<esp, air>>
                ELSE /\ ev' = [fn |-> "transmit", mark |-> 1 - ev.mark, fired |-> TRUE,
                               add |-> added, sent |-> TRUE, result |-> result]
                     /\ air' = [sent |-> TRUE, len |-> FlightSensorDataSize,
                                data |-> sensorData]
                     /\ handleCommunicationErrors(
                            EspAtSend([esp EXCEPT !.peer = TRUE], result),
                            result, initOk, peerOk)

\* logToSD giving the logging up when the file cannot be opened
logToSD_StopsOnFailure(opened) ==
    IF ~isFlightLogging \/ currentLogFilename = NoFile
    THEN UNCHANGED <<loggedRow, currentFlightState, isFlightLogging, flightStartTime>>
    ELSE IF ~opened
         THEN /\ isFlightLogging' = FALSE
              /\ UNCHANGED <<loggedRow, currentFlightState, flightStartTime>>
         ELSE /\ loggedRow' = [file |-> currentLogFilename, row |-> sensorData]
              /\ UNCHANGED <<currentFlightState, isFlightLogging, flightStartTime>>

\* logToSD; opened is the result of SD.open
logToSD(opened) ==
    IF ~isFlightLogging \/ currentLogFilename = NoFile
    THEN UNCHANGED <<loggedRow, currentFlightState, isFlightLogging, flightStartTime>>
    ELSE IF ~opened
         THEN UNCHANGED <<loggedRow, currentFlightState, isFlightLogging, flightStartTime>>
         ELSE /\ loggedRow' = [file |-> currentLogFilename, row |-> sensorData]
              /\ UNCHANGED <<currentFlightState, isFlightLogging, flightStartTime>>

\* loop() with transmitData called before updateSensorData
LoopOrder_TransmitFirst == <<"transmitData", "updateSensorData", "logToSD", "delay">>

\* the statements of loop(), in order
LoopOrder == <<"updateSensorData", "transmitData", "logToSD", "delay">>

\* the statement of loop() that follows statement number i
NextStatement(i) == IF i = Len(LoopOrder) THEN 1 ELSE i + 1

\* the device is running loop() and is at the given statement
AtStatement(name) == pc \in 1..Len(LoopOrder) /\ LoopOrder[pc] = name /\ ~esp.restart

\* loop(): updateSensorData()
LoopUpdate ==
    /\ AtStatement("updateSensorData")
    /\ \E r \in Readings : updateSensorData(r.adc, r.sample)
    /\ pc' = NextStatement(pc)
    /\ UNCHANGED <<lastTransmissionTime, esp, air, loggedRow, logCall>>
    /\ UNCHANGED <<flightVars, cmdVars, groundVars, gtxVars>>

\* loop(): transmitData()
LoopTransmit ==
    /\ AtStatement("transmitData")
    /\ \E addOk \in BOOLEAN, result \in SendResults, initOk \in BOOLEAN, peerOk \in BOOLEAN :
          transmitData(addOk, result, initOk, peerOk)
    /\ pc' = NextStatement(pc)
    /\ UNCHANGED <<lastSensorReadTime, lastUpdateTime, sensorData, loggedRow, logCall>>
    /\ UNCHANGED <<clock, ticks, currentFlightState, currentLogFilename, sdReady,
                   isFlightLogging, flightStartTime, sdLog, reportedDuration,
                   serialOut, rx>>
    /\ UNCHANGED <<cmdVars, groundVars, gtxVars>>

\* loop(): if (isFlightLogging) { logToSD(); debugPrintData(); }
LoopLog ==
    /\ AtStatement("logToSD")
    /\ IF isFlightLogging
       THEN \E opened \in BOOLEAN : logToSD(opened)
       ELSE UNCHANGED <<loggedRow, currentFlightState, isFlightLogging, flightStartTime>>
    /\ pc' = NextStatement(pc)
    /\ UNCHANGED <<lastSensorReadTime, lastTransmissionTime, lastUpdateTime,
                   sensorData, esp, air, ev, logCall>>
    /\ UNCHANGED <<clock, ticks, currentLogFilename, sdReady, sdLog, reportedDuration,
                   serialOut, rx>>
    /\ UNCHANGED <<cmdVars, groundVars, gtxVars>>

\* the times after which delay(100) returns: 100 ms, 500 ms, and 200 ms
\* short of the counter's whole range
DelaySteps == {U32(0, SENSOR_READ_INTERVAL), U32(0, TRANSMISSION_INTERVAL),
               U32(HalfWord - 1, HalfWord - 200)}

\* loop(): delay(100)
LoopDelay ==
    /\ AtStatement("delay")
    /\ pc' = NextStatement(pc)
    /\ \E d \in DelaySteps : Tick(d)

\* setup(): esp_now_init and the esp_now_init of setupEspNow (initOk), the
\* reception callback registered, setupEspNow's esp_now_add_peer (peerOk);
\* the storage block is commented out and sdReady keeps its value, false;
\* delay(1000) lets a second pass
setup(initOk, peerOk) ==
    /\ pc = 0
    /\ ~esp.restart
    /\ IF ~initOk
       THEN /\ esp' = EspRestart
            /\ UNCHANGED <<pc, clock>>
       ELSE /\ esp' = setupEspNow([EspDown EXCEPT !.init = TRUE, !.recvCb = TRUE],
                                  TRUE, peerOk)
            /\ clock' = Add32(clock, U32(0, 1000))
            /\ pc' = 1
    /\ UNCHANGED <<lastSensorReadTime, lastTransmissionTime, lastUpdateTime,
                   sensorData, air, ev, loggedRow, logCall>>
    /\ UNCHANGED <<ticks, currentFlightState, currentLogFilename, sdReady,
                   isFlightLogging, flightStartTime, sdLog, reportedDuration,
                   serialOut, rx>>
    /\ UNCHANGED <<cmdVars, groundVars, gtxVars>>

\* the device comes up after power-on or ESP.restart()
Boot == \E initOk \in BOOLEAN, peerOk \in BOOLEAN : setup(initOk, peerOk)

\* ESP.restart() takes effect: the globals have their initial values again
\* and the millisecond counter starts from 0; what the storage holds stays,
\* and nothing has been received or sent since this start
Reboot ==
    /\ esp.restart
    /\ esp' = EspDown
    /\ pc' = 0
    /\ clock' = U32(0, 0)
    /\ currentFlightState' = GROUND_STATE
    /\ currentLogFilename' = NoFile
    /\ sdReady' = FALSE
    /\ isFlightLogging' = FALSE
    /\ flightStartTime' = U32(0, 0)
    /\ lastSensorReadTime' = U32(0, 0)
    /\ lastTransmissionTime' = U32(0, 0)
    /\ lastUpdateTime' = U32(0, 0)
    /\ sensorData' = ZeroSensorData
    /\ rx' = NoBuffer
    /\ ev' = NoEvent
    /\ air' = NoPacket
    /\ serialOut' = ""
    /\ UNCHANGED <<ticks, sdLog, reportedDuration, loggedRow, logCall>>
    /\ UNCHANGED <<cmdVars, groundVars, gtxVars>>

\* the lengths of the buffers delivered while loop() runs; their first
\* bytes are those of a start or of an end command
LoopRxLengths == RxOtherLengths \cup {ControlCommandSize}

\* a packet arrives while loop() runs: the library calls the registered
\* reception callback
LoopReceive ==
    /\ pc \in 1..Len(LoopOrder)
    /\ esp.recvCb
    /\ \E len \in LoopRxLengths, data \in RxOtherData, opened \in BOOLEAN :
          onEspNowReceive(len, data, opened)

\* loop(): transmitData(), the peer registered and the library in working
\* order: esp_now_send succeeds or answers that it is out of memory
LoopSdTransmit ==
    /\ AtStatement("transmitData")
    /\ \E result \in {ESP_OK, ESP_ERR_ESPNOW_NO_MEM} : transmitData(TRUE, result, TRUE, TRUE)
    /\ pc' = NextStatement(pc)
    /\ UNCHANGED <<lastSensorReadTime, lastUpdateTime, sensorData, loggedRow, logCall>>
    /\ UNCHANGED <<clock, ticks, currentFlightState, currentLogFilename, sdReady,
                   isFlightLogging, flightStartTime, sdLog, reportedDuration,
                   serialOut, rx>>
    /\ UNCHANGED <<cmdVars, groundVars, gtxVars>>

\* loop(): delay(100), returning after 100 ms or after 500 ms
LoopSdDelay ==
    /\ AtStatement("delay")
    /\ pc' = NextStatement(pc)
    /\ \E d \in {U32(0, SENSOR_READ_INTERVAL), U32(0, TRANSMISSION_INTERVAL)} : Tick(d)

\* a start or an end command arrives while loop() runs
LoopSdReceive ==
    /\ pc \in 1..Len(LoopOrder)
    /\ esp.recvCb
    /\ \E data \in RxOtherData, opened \in BOOLEAN :
          onEspNowReceive(ControlCommandSize, data, opened)

\* the results SD.open can give for a name: an empty name is no path, and
\* no file is returned for it
OpenOutcomes(name) == IF name = NoFile THEN {FALSE} ELSE BOOLEAN

\* loop(), if (isFlightLogging), and the first line of logToSD,
\* if (!isFlightLogging || currentLogFilename == "") return;
\* the call goes on, or loop() goes on to its next statement
LogGuard ==
    /\ AtStatement("logToSD")
    /\ logCall.at = "idle"
    /\ IF isFlightLogging /\ currentLogFilename # NoFile
       THEN /\ logCall' = [logCall EXCEPT !.at = "checked"]
            /\ UNCHANGED pc
       ELSE /\ pc' = NextStatement(pc)
            /\ UNCHANGED logCall
    /\ UNCHANGED <<lastSensorReadTime, lastTransmissionTime, lastUpdateTime,
                   sensorData, esp, air, ev, loggedRow>>
    /\ UNCHANGED <<flightVars, cmdVars, groundVars, gtxVars>>

\* logToSD: File file = SD.open(currentLogFilename.c_str(), FILE_WRITE);
\* if (!file) return;  the name is read when the call gets here
LogOpen ==
    /\ AtStatement("logToSD")
    /\ logCall.at = "checked"
    /\ \E opened \in OpenOutcomes(currentLogFilename) :
          IF opened
          THEN /\ logCall' = [at |-> "opened", file |-> currentLogFilename]
               /\ UNCHANGED pc
          ELSE /\ logCall' = [at |-> "idle", file |-> currentLogFilename]
               /\ pc' = NextStatement(pc)
    /\ UNCHANGED <<lastSensorReadTime, lastTransmissionTime, lastUpdateTime,
                   sensorData, esp, air, ev, loggedRow>>
    /\ UNCHANGED <<flightVars, cmdVars, groundVars, gtxVars>>

\* logToSD: file.printf of the row, file.close(); the row goes to the file
\* that was opened
LogWrite ==
    /\ AtStatement("logToSD")
    /\ logCall.at = "opened"
    /\ loggedRow' = [file |-> logCall.file, row |-> sensorData]
    /\ logCall' = [logCall EXCEPT !.at = "idle"]
    /\ pc' = NextStatement(pc)
    /\ UNCHANGED <<lastSensorReadTime, lastTransmissionTime, lastUpdateTime,
                   sensorData, esp, air, ev>>
    /\ UNCHANGED <<flightVars, cmdVars, groundVars, gtxVars>>

----------------------------------------------------------------------------
(* A Command Record in flight *)

\* nothing validated yet
NotValidated == [done |-> FALSE, sum |-> 0, valid |-> FALSE]

\* the positions at which the record differs from what was sent
Corrupted == { i \in 0..(ControlCommandSize - 1) : cmd[i] # cmdSent[i] }

\* the values a byte b is changed to in flight: the next value, the top bit
\* flipped, every bit flipped
CorruptValues(b) == { (b + 1) % TwoTo8, (b + 128) % TwoTo8, (TwoTo8 - 1) - b }

\* one byte of the record changes on the air
Corrupt ==
    /\ Cardinality(Corrupted) < MaxCorruptions
    /\ \E i \in (0..(ControlCommandSize - 1)) \ Corrupted :
         \E v \in CorruptValues(cmd[i]) :
            cmd' = [cmd EXCEPT ![i] = v]
    /\ chk' = NotValidated
    /\ UNCHANGED cmdSent
    /\ UNCHANGED <<flightVars, loopVars, groundVars, gtxVars>>

\* the flight unit computes calculateChecksum() and isValid() of the record
Validate ==
    /\ ~chk.done
    /\ chk' = [done |-> TRUE, sum |-> calculateChecksum(cmd), valid |-> isValid(cmd)]
    /\ UNCHANGED <<cmd, cmdSent>>
    /\ UNCHANGED <<flightVars, loopVars, groundVars, gtxVars>>

----------------------------------------------------------------------------
(* The ground unit's reception callback *)

\* the values of a Telemetry Record: one value for each member of SensorData
TelemetryRecords ==
    [acelerometro : 0..MaxField, altimetro : 0..MaxField, tensao : 0..MaxField,
     gps : 0..MaxField, timestamp : 0..MaxField]

\* SensorData dadosRecebidos = {0}
ZeroRecord ==
    [acelerometro |-> 0, altimetro |-> 0, tensao |-> 0, gps |-> 0, timestamp |-> 0]

\* the lengths delivered to the ground unit
GroundRxLengths ==
    {0, SensorDataSize - 1, SensorDataSize, SensorDataSize + 1, FlightSensorDataSize}

\* the length check of the ground callback, rejecting short buffers only
TelemetryLengthRejected_Short(len) == len < SensorDataSize

\* if (len != sizeof(SensorData)) return
TelemetryLengthRejected(len) == len # SensorDataSize

\* onEspNowReceive of the ground unit, called with len bytes that hold the
\* record data
Base_onEspNowReceive(len, data) ==
    /\ grx' = [seen |-> TRUE, len |-> len]
    /\ IF TelemetryLengthRejected(len)
       THEN UNCHANGED <<dadosRecebidos, dadosAtualizados>>
       ELSE /\ dadosRecebidos' = data
            /\ dadosAtualizados' = TRUE
    /\ UNCHANGED <<flightVars, loopVars, cmdVars, gtxVars>>

\* a packet arrives at the ground unit
GroundReceive ==
    \E len \in GroundRxLengths, data \in TelemetryRecords :
        Base_onEspNowReceive(len, data)

----------------------------------------------------------------------------
(* The rate gates and the link, function by function.  (A call of         *)
(* transmitData that ends in ESP.restart() ends these behaviours.)         *)

\* the times that pass between two calls: each interval, each interval
\* less 1 ms, and 200 ms short of the counter's whole range
SchedSteps == {U32(0, SENSOR_READ_INTERVAL - 1), U32(0, SENSOR_READ_INTERVAL),
               U32(0, TRANSMISSION_INTERVAL - 1), U32(0, TRANSMISSION_INTERVAL),
               U32(HalfWord - 1, HalfWord - 200)}

\* time passes between two calls
Elapse == UNCHANGED pc /\ \E d \in SchedSteps : Tick(d)

\* the times that pass between two calls of updateSensorData on its own:
\* one sampling interval, two and a half of them, and what is left of the
\* counter's range a second after the start
FusionSteps ==
    {U32(0, SENSOR_READ_INTERVAL), U32(0, (5 * SENSOR_READ_INTERVAL) \div 2),
     U32(HalfWord - 1, HalfWord - 1000)}

\* time passes between two calls of updateSensorData
FusionElapse == UNCHANGED pc /\ \E d \in FusionSteps : Tick(d)

\* the times that pass between two calls on the link: 499 ms and 500 ms
LinkSteps == {U32(0, TRANSMISSION_INTERVAL - 1), U32(0, TRANSMISSION_INTERVAL)}

\* time passes between two calls on the link
LinkElapse == UNCHANGED pc /\ \E d \in LinkSteps : Tick(d)

\* the device is up and not inside a call
Running == pc = 1 /\ ~esp.restart

\* updateSensorData is called
CallUpdate ==
    /\ Running
    /\ \E r \in Readings : updateSensorData(r.adc, r.sample)
    /\ UNCHANGED <<pc, lastTransmissionTime, esp, air, loggedRow, logCall>>
    /\ UNCHANGED <<flightVars, cmdVars, groundVars, gtxVars>>

\* the outcomes esp_now_add_peer can have in transmitData: it is called
\* only when the peer does not exist
AddOutcomes == IF esp.peer THEN {TRUE} ELSE BOOLEAN

\* the outcomes the calls of setupEspNow can have after a send that
\* answered result: it is called only when handleCommunicationErrors
\* re-initialises
SetupOutcomes(result) == IF Reinitialises(result) THEN BOOLEAN ELSE {TRUE}

\* transmitData is called
CallTransmit ==
    /\ Running
    /\ \E addOk \in AddOutcomes, result \in SendResults :
          \E initOk \in SetupOutcomes(result), peerOk \in SetupOutcomes(result) :
              transmitData(addOk, result, initOk, peerOk)
    /\ UNCHANGED <<pc, lastSensorReadTime, lastUpdateTime, sensorData, loggedRow, logCall>>
    /\ UNCHANGED <<clock, ticks, currentFlightState, currentLogFilename, sdReady,
                   isFlightLogging, flightStartTime, sdLog, reportedDuration,
                   serialOut, rx>>
    /\ UNCHANGED <<cmdVars, groundVars, gtxVars>>

\* no command has been sent
\* (add: the outcome of esp_now_add_peer, if called; sent: esp_now_send
\* was called with bytes)
NoCommandSent == [called |-> FALSE, type |-> NO_COMMAND, add |-> "none", sent |-> FALSE,
                  bytes |-> CommandBytes(NO_COMMAND, 0, 0, 0, 0)]

\* sendFlightCommand gives the send up: the peer does not exist and
\* esp_now_add_peer fails
CommandSendAborted(peerExists, addOk) == ~peerExists /\ ~addOk

\* nextSequenceId++ without the wrap-around of the uint16_t
NextSequence_NoWrap(id) == id + 1

\* nextSequenceId++ in a uint16_t
NextSequence(id) == (id + 1) % HalfWord

\* the values of nextSequenceId at which the model sends a command: the
\* first ones, and the last ones before the counter wraps
SequenceIdInRange(id) == id <= MaxSequenceId \/ id >= HalfWord - 1 - MaxSequenceId

\* sendFlightCommand(type) of the ground unit; now is its millis(), pad the
\* value of the padding byte of the local LaunchCommand (never written),
\* addOk the result of esp_now_add_peer, result that of esp_now_send (a
\* result other than ESP_OK is printed, and nothing else)
sendFlightCommand(type, now, pad, addOk, result) ==
    /\ SequenceIdInRange(nextSequenceId)
    /\ IF CommandSendAborted(gpeer, addOk)
       THEN /\ gtx' = [called |-> TRUE, type |-> type, add |-> "failed", sent |-> FALSE,
                       bytes |-> NoCommandSent.bytes]
            /\ UNCHANGED <<gpeer, nextSequenceId>>
       ELSE /\ gpeer' = TRUE
            /\ nextSequenceId' = NextSequence(nextSequenceId)
            /\ gtx' = [called |-> TRUE, type |-> type,
                       add |-> (IF gpeer THEN "none" ELSE "ok"), sent |-> TRUE,
                       bytes |-> CommandBytes(type, now, nextSequenceId,
                                              LaunchChecksum(type, now, nextSequenceId), pad)]
    /\ UNCHANGED <<flightVars, loopVars, cmdVars, groundVars>>

\* the ground unit's millis() when a command is sent
GroundTimes == {5000}

\* the values found in the padding byte
PadValues == {0, TwoTo8 - 1}

\* the operator asks for a start or for an end of the flight
GroundSend ==
    \E type \in {START_FLIGHT, END_FLIGHT}, now \in GroundTimes, pad \in PadValues,
       addOk \in BOOLEAN, result \in {ESP_OK, ESP_ERR_ESPNOW_NO_MEM} :
          sendFlightCommand(type, now, pad, addOk, result)

\* the last Command Record handed to esp_now_send reaches the flight unit
\* unmodified (any number of times); opened is the result of SD.open,
\* should the callback call it
DeliverCommand ==
    /\ gtx.sent
    /\ \E opened \in BOOLEAN : onEspNowReceive(ControlCommandSize, gtx.bytes, opened)

\* the record the ground unit reads from the first sizeof(SensorData) bytes
\* of a flight unit's record: its tensao is the flight unit's voltage_base,
\* its gps begins with the flight unit's voltage_rocket and its timestamp
\* is the flight unit's gps.second
GroundView(f) ==
    [acelerometro |-> f.acelerometro, altimetro |-> f.altimetro,
     tensao |-> f.tensao.voltage_base,
     gps |-> <<f.tensao.voltage_rocket>> \o SubSeq(f.gps, 1, Len(f.gps) - 1),
     timestamp |-> f.gps[Len(f.gps)]]

\* the last telemetry packet handed to esp_now_send reaches the ground
\* unit unmodified
Deliver ==
    /\ air.sent
    /\ Base_onEspNowReceive(air.len, GroundView(air.data))

----------------------------------------------------------------------------
(* Initial states and specifications *)

\* the flight unit's globals as declared, at the end of setup()
FlightInit ==
    /\ clock = U32(0, 0)
    /\ ticks = 0
    /\ currentFlightState = GROUND_STATE
    /\ currentLogFilename = NoFile
    /\ isFlightLogging = FALSE
    /\ flightStartTime = U32(0, 0)
    /\ sdLog = <<>>
    /\ reportedDuration = <<>>
    /\ serialOut = ""
    /\ rx = NoBuffer

\* the globals of the rate gates as declared, nothing sent yet
LoopIdle ==
    /\ lastSensorReadTime = U32(0, 0)
    /\ lastTransmissionTime = U32(0, 0)
    /\ lastUpdateTime = U32(0, 0)
    /\ sensorData = ZeroSensorData
    /\ air = NoPacket
    /\ ev = NoEvent
    /\ loggedRow = [file |-> NoFile, row |-> ZeroSensorData]
    /\ logCall = NoLogCall

\* the library as setup() leaves it, the peer added
EspUp == [init |-> TRUE, sendCb |-> TRUE, recvCb |-> TRUE, peer |-> TRUE,
          restart |-> FALSE]

\* setup() has run and loop() has not been entered
SetupDone ==
    /\ pc = 1
    /\ esp = EspUp
    /\ LoopIdle

\* no Command Record is in flight
CmdIdle ==
    /\ cmd = CommandBytes(NO_COMMAND, 0, 0, 0, 0)
    /\ cmdSent = cmd
    /\ chk = NotValidated

\* the ground unit's globals as declared
GroundInit ==
    /\ dadosRecebidos = ZeroRecord
    /\ dadosAtualizados = FALSE
    /\ grx = [seen |-> FALSE, len |-> 0]
    /\ gpeer = FALSE
    /\ nextSequenceId = 0
    /\ gtx = NoCommandSent

\* setup() as written: the SD initialisation is commented out, sdReady
\* keeps its initial value false
Init ==
    /\ FlightInit
    /\ SetupDone
    /\ sdReady = FALSE
    /\ CmdIdle
    /\ GroundInit

\* setup() with its SD initialisation block enabled: sdReady is the result
\* of SD.begin
InitSd ==
    /\ FlightInit
    /\ SetupDone
    /\ sdReady \in BOOLEAN
    /\ CmdIdle
    /\ GroundInit

\* a Command Record is built from its fields, with the checksum the ground
\* unit computes or another one, and is in flight
InitChecksum ==
    /\ FlightInit
    /\ SetupDone
    /\ sdReady = FALSE
    /\ cmd \in RxCommands
    /\ cmdSent = cmd
    /\ chk = NotValidated
    /\ GroundInit

\* power-on: nothing has run yet
InitLoop ==
    /\ FlightInit
    /\ sdReady = FALSE
    /\ pc = 0
    /\ esp = EspDown
    /\ LoopIdle
    /\ CmdIdle
    /\ GroundInit

\* setup() has run; its esp_now_add_peer has succeeded or failed
InitSched ==
    /\ FlightInit
    /\ sdReady = FALSE
    /\ pc = 1
    /\ esp \in {EspUp, [EspUp EXCEPT !.peer = FALSE]}
    /\ LoopIdle
    /\ CmdIdle
    /\ GroundInit

\* setup() has run and a record is in sensorData: the initial one, or one
\* assembled by updateSensorData
InitLink ==
    /\ FlightInit
    /\ sdReady = FALSE
    /\ pc = 1
    /\ esp \in {EspUp, [EspUp EXCEPT !.peer = FALSE]}
    /\ lastSensorReadTime = U32(0, 0)
    /\ lastTransmissionTime = U32(0, 0)
    /\ lastUpdateTime = U32(0, 0)
    /\ sensorData \in FlightRecords
    /\ air = NoPacket
    /\ ev = NoEvent
    /\ loggedRow = [file |-> NoFile, row |-> ZeroSensorData]
    /\ logCall = NoLogCall
    /\ CmdIdle
    /\ GroundInit

\* both units are up, the flight unit's storage initialisation block
\* enabled; the ground unit has built no command yet, or all but the last
\* MaxSequenceId + 1 of the 65536 that precede the counter's wrap
InitSeq ==
    /\ FlightInit
    /\ SetupDone
    /\ sdReady \in BOOLEAN
    /\ CmdIdle
    /\ dadosRecebidos = ZeroRecord
    /\ dadosAtualizados = FALSE
    /\ grx = [seen |-> FALSE, len |-> 0]
    /\ gpeer = FALSE
    /\ nextSequenceId \in {0, HalfWord - 1 - MaxSequenceId}
    /\ gtx = NoCommandSent

\* setup() with its storage initialisation block enabled has completed,
\* SD.begin having succeeded: a second has passed and loop() is entered
InitLoopSd ==
    /\ clock = U32(0, 1000)
    /\ ticks = 0
    /\ currentFlightState = GROUND_STATE
    /\ currentLogFilename = NoFile
    /\ isFlightLogging = FALSE
    /\ flightStartTime = U32(0, 0)
    /\ sdLog = <<>>
    /\ reportedDuration = <<>>
    /\ serialOut = ""
    /\ rx = NoBuffer
    /\ sdReady = TRUE
    /\ SetupDone
    /\ CmdIdle
    /\ GroundInit

\* setup() has completed (its delay(1000) has let a second pass) and
\* updateSensorData has not been called yet
InitFusion ==
    /\ clock = U32(0, 1000)
    /\ ticks = 0
    /\ currentFlightState = GROUND_STATE
    /\ currentLogFilename = NoFile
    /\ isFlightLogging = FALSE
    /\ flightStartTime = U32(0, 0)
    /\ sdLog = <<>>
    /\ reportedDuration = <<>>
    /\ serialOut = ""
    /\ rx = NoBuffer
    /\ sdReady = FALSE
    /\ SetupDone
    /\ CmdIdle
    /\ GroundInit

Next == Advance \/ Receive

NextFusion == FusionElapse \/ CallUpdate

NextLoopSd == LoopUpdate \/ LoopSdTransmit \/ LoopLog \/ LoopSdDelay \/ LoopSdReceive

NextSeq == GroundSend \/ DeliverCommand

NextLoop == Boot \/ Reboot \/ LoopUpdate \/ LoopTransmit \/ LoopLog \/ LoopDelay
               \/ LoopReceive

NextSched == Elapse \/ CallUpdate \/ CallTransmit

NextLink == LinkElapse \/ CallTransmit \/ GroundSend \/ Deliver

NextChecksum == Corrupt \/ Validate

NextGround == GroundReceive

Spec == Init /\ [][Next]_vars

SpecSd == InitSd /\ [][Next]_vars

SpecChecksum == InitChecksum /\ [][NextChecksum]_vars

SpecGround == Init /\ [][NextGround]_vars

SpecLoop == InitLoop /\ [][NextLoop]_vars

SpecSched == InitSched /\ [][NextSched]_vars

SpecLink == InitLink /\ [][NextLink]_vars

SpecSeq == InitSeq /\ [][NextSeq]_vars

SpecFusion == InitFusion /\ [][NextFusion]_vars

SpecLoopSd == InitLoopSd /\ [][NextLoopSd]_vars

\* loop() with the storage ready, logToSD taken line by line: the command
\* callback runs in the task of the radio and can come between two lines
NextRace == LoopUpdate \/ LoopSdTransmit \/ LogGuard \/ LogOpen \/ LogWrite
               \/ LoopSdDelay \/ LoopSdReceive

SpecRace == InitLoopSd /\ [][NextRace]_vars

----------------------------------------------------------------------------
(* Properties *)

\* A step taken by the flight unit's command callback: an advance of the
\* clock changes clock and ticks, and every statement of loop() and every
\* start of the device changes pc or leaves all variables as they are.  In
\* such a step rx' describes the buffer the callback was called with.
RxStep == rx'.seen /\ UNCHANGED <<clock, ticks, pc, esp>>

\* the callback was called with a 12-byte record of the given kind
RxCommand(type) == RxStep /\ rx'.len = ControlCommandSize /\ rx'.type = type

\* the flight state, the logging flags and the logging session are as before
FlightStateUnchanged ==
    UNCHANGED <<currentFlightState, isFlightLogging, flightStartTime,
                currentLogFilename, sdLog>>

\* the begin operations of the storage log that created the file
SessionsBegun(log) ==
    Cardinality({ i \in 1..Len(log) : log[i].op = "begin" /\ log[i].opened })

C2_StartFromGroundBeginsFlight ==
    [][ (RxCommand(START_FLIGHT) /\ rx'.valid /\ currentFlightState = GROUND_STATE)
            => /\ currentFlightState' = FLIGHT_ACTIVE
               /\ isFlightLogging' = TRUE
               /\ flightStartTime' = clock ]_vars

\* C3: a valid end-flight command received in FLIGHT_ACTIVE at time now
\* makes the state POST_FLIGHT, clears isFlightLogging and reports the
\* duration ((now - flightStartTime) mod 2^32) / 1000, truncated.
C3_EndFromActiveReportsDuration ==
    [][ (RxCommand(END_FLIGHT) /\ rx'.valid /\ currentFlightState = FLIGHT_ACTIVE)
            => /\ currentFlightState' = POST_FLIGHT
               /\ isFlightLogging' = FALSE
               /\ reportedDuration' =
                     Append(reportedDuration, Div1000(Sub32(clock, flightStartTime))) ]_vars

\* C3, reached: a flight started 2000 ms before the counter overflows and
\* ended 3000 ms after it is reported as 5 seconds.
C3_Witness ==
    /\ rx.len = ControlCommandSize /\ rx.type = END_FLIGHT /\ rx.valid
    /\ rx.pre = FLIGHT_ACTIVE
    /\ currentFlightState = POST_FLIGHT
    /\ ~isFlightLogging
    /\ flightStartTime = U32(HalfWord - 1, HalfWord - 2000)
    /\ clock = U32(0, 3000)
    /\ reportedDuration = <<5>>

\* C4: the end-to-end scenario, step by step.  With the clock at 0 and the
\* state Ground, a valid start-flight command makes the state FlightActive
\* with exactly one logging session begun; an end-flight command with an
\* invalid checksum leaves the state FlightActive; a valid end-flight
\* command at 5000 ms, the flight having started at 0, makes the state
\* PostFlight and reports 5 seconds.
C4_EndToEndScenario ==
    [][ /\ (RxCommand(START_FLIGHT) /\ rx'.valid /\ clock = U32(0, 0)
              /\ currentFlightState = GROUND_STATE /\ sdLog = <<>>)
            => (currentFlightState' = FLIGHT_ACTIVE /\ SessionsBegun(sdLog') = 1)
        /\ (RxCommand(END_FLIGHT) /\ ~rx'.valid /\ currentFlightState = FLIGHT_ACTIVE)
            => currentFlightState' = FLIGHT_ACTIVE
        /\ (RxCommand(END_FLIGHT) /\ rx'.valid /\ currentFlightState = FLIGHT_ACTIVE
              /\ flightStartTime = U32(0, 0) /\ clock = U32(0, 5000))
            => (currentFlightState' = POST_FLIGHT
                /\ reportedDuration' = Append(reportedDuration, 5)) ]_vars

\* C5: calculateChecksum returns the sum modulo 256 of the bytes that
\* precede the checksum field, and isValid holds exactly when the checksum
\* field equals that sum.
C5_ChecksumIsSumOfPrecedingBytes ==
    chk.done =>
        /\ chk.sum = SumBytes(cmd, ChecksumOffset)
        /\ chk.valid <=> (ChecksumOf(cmd) = SumBytes(cmd, ChecksumOffset))

\* C6: in a record for which isValid is true, changing the value of any
\* single byte before the checksum field, the checksum field kept, gives a
\* record for which isValid is false; so a record sent valid and received
\* with one such byte changed is found invalid.
C6_SingleByteChangeInvalidates ==
    /\ isValid(cmd) =>
          \A i \in 0..(ChecksumOffset - 1) :
             \A v \in Byte \ {cmd[i]} : ~isValid([cmd EXCEPT ![i] = v])
    /\ (chk.done /\ isValid(cmdSent) /\ Cardinality(Corrupted) = 1
          /\ Corrupted \subseteq 0..(ChecksumOffset - 1))
          => ~chk.valid

\* C6, reached: a record sent valid, one byte before the checksum field
\* changed in flight, validated by the flight unit and found invalid.
C6_Witness ==
    /\ isValid(cmdSent)
    /\ Cardinality(Corrupted) = 1
    /\ Corrupted \subseteq 0..(ChecksumOffset - 1)
    /\ chk.done
    /\ ~chk.valid

\* C7: a start-flight command received in FLIGHT_ACTIVE or POST_FLIGHT, and
\* an end-flight command received in a state other than FLIGHT_ACTIVE,
\* leave currentFlightState, isFlightLogging, flightStartTime and
\* currentLogFilename unchanged and invoke no storage operation.
C7_IdempotenceGuards ==
    [][ ( \/ (RxCommand(START_FLIGHT)
                /\ currentFlightState \in {FLIGHT_ACTIVE, POST_FLIGHT})
          \/ (RxCommand(END_FLIGHT) /\ currentFlightState # FLIGHT_ACTIVE) )
            => FlightStateUnchanged ]_vars

\* C7, reached: a second start-flight command has been received during the
\* flight, and the one session begun is still the only storage operation.
C7_Witness ==
    /\ rx.len = ControlCommandSize /\ rx.type = START_FLIGHT
    /\ rx.pre = FLIGHT_ACTIVE
    /\ currentFlightState = FLIGHT_ACTIVE
    /\ isFlightLogging
    /\ sdLog = <<[op |-> "begin", opened |-> TRUE]>>

C9_OtherKindsChangeNothing ==
    [][ (RxStep /\ rx'.len = ControlCommandSize
          /\ rx'.type \notin {START_FLIGHT, END_FLIGHT})
            => /\ FlightStateUnchanged
               /\ UNCHANGED reportedDuration
               /\ serialOut' = "Comando nao reconhecido" ]_vars

\* C9, reached: an abort-mission command has been received during the
\* flight, and the flight is still active and logging.
C9_Witness ==
    /\ rx.len = ControlCommandSize /\ rx.type = ABORT_MISSION
    /\ rx.pre = FLIGHT_ACTIVE
    /\ currentFlightState = FLIGHT_ACTIVE
    /\ isFlightLogging
    /\ serialOut = "Comando nao reconhecido"

\* C10: the ground unit's callback, called with a length other than
\* sizeof(SensorData), changes neither dadosRecebidos nor dadosAtualizados.
\* (Every step of NextGround is a call of the callback with grx'.len bytes.)
C10_WrongLengthChangesNothing ==
    [][ (grx'.seen /\ grx'.len # SensorDataSize)
            => UNCHANGED <<dadosRecebidos, dadosAtualizados>> ]_vars

\* C10, reached: a record has been accepted, then the callback has been
\* called with one byte too many, and the accepted record is still there.
C10_Witness ==
    /\ grx.seen
    /\ grx.len = SensorDataSize + 1
    /\ dadosAtualizados
    /\ dadosRecebidos # ZeroRecord

\* C11: the flight unit's callback, called with a length other than
\* sizeof(ControlCommand), changes nothing: the flight state, the logging
\* flags and session, the Telemetry Record and the timestamps of the rate
\* gates are as before, whatever the buffer holds and whatever the state.
C11_WrongCommandLengthChangesNothing ==
    [][ (RxStep /\ rx'.len # ControlCommandSize)
            => /\ FlightStateUnchanged
               /\ UNCHANGED <<sdReady, reportedDuration, serialOut>>
               /\ UNCHANGED <<sensorData, lastSensorReadTime, lastTransmissionTime,
                              lastUpdateTime, air, esp>> ]_vars

\* C11, reached: 13 bytes that begin as an end-flight command have been
\* received during the flight, and the flight is still active and logging.
C11_Witness ==
    /\ rx.seen
    /\ rx.len = ControlCommandSize + 1
    /\ rx.type = END_FLIGHT
    /\ rx.pre = FLIGHT_ACTIVE
    /\ currentFlightState = FLIGHT_ACTIVE
    /\ isFlightLogging
    /\ reportedDuration = <<>>

\* C12: the Telemetry Record has the same byte length and the same field
\* layout in the flight unit's Structs.h and in the ground unit's, so that
\* every record handed to esp_now_send by transmitData passes the ground
\* unit's length check.
C12_SameRecordLengthAndLayout ==
    air.sent =>
        /\ SizeOfLayout(FlightSensorLayout) = SizeOfLayout(GroundSensorLayout)
        /\ FlightSensorLayout = GroundSensorLayout
        /\ air.len = SizeOfLayout(FlightSensorLayout)
        /\ ~TelemetryLengthRejected(air.len)

\* the ground unit's record g equals the flight unit's record f field for field
SameFields(g, f) ==
    /\ g.acelerometro = f.acelerometro
    /\ g.altimetro = f.altimetro
    /\ g.tensao = f.tensao.voltage_rocket
    /\ g.gps = f.gps
    /\ g.timestamp = f.timestamp

\* the ground unit's callback is called with the last packet transmitted
\* (of the steps of NextLink, only this one and the ground unit's own send
\* leave the flight unit and the clock as they are)
DeliverStep == air.sent /\ grx'.seen /\ grx'.len = air.len /\ UNCHANGED <<air, ev, clock, gtx>>

\* C13: the bytes handed to esp_now_send by transmitData, delivered
\* unmodified to the ground unit's callback, are accepted: dadosRecebidos
\* is then field for field the record sent and dadosAtualizados is true.
C13_TelemetryRoundTrip ==
    [][ DeliverStep => (dadosAtualizados' /\ SameFields(dadosRecebidos', air.data)) ]_vars

\* a call of updateSensorData, and one of transmitData, has been made in
\* this step, and its rate gate was open: a trigger
SamplingTrigger     == ev' # ev /\ ev'.fn = "update" /\ ev'.fired
TransmissionTrigger == ev' # ev /\ ev'.fn = "transmit" /\ ev'.fired

\* C14: lastSensorReadTime and lastTransmissionTime are the times of the
\* last sampling and of the last transmission trigger (they change in
\* triggers only, to the current time); a sampling trigger fires only when
\* at least 100 ms have passed since the previous one and a transmission
\* trigger only when at least 500 ms have passed since the previous one,
\* however often the functions are called.
C14_SchedulerCadence ==
    [][ /\ SamplingTrigger
            => /\ ~Lt32(Sub32(clock, lastSensorReadTime), U32(0, SENSOR_READ_INTERVAL))
               /\ lastSensorReadTime' = clock
        /\ TransmissionTrigger
            => /\ ~Lt32(Sub32(clock, lastTransmissionTime), U32(0, TRANSMISSION_INTERVAL))
               /\ lastTransmissionTime' = clock
        /\ (lastSensorReadTime' # lastSensorReadTime) => SamplingTrigger
        /\ (lastTransmissionTime' # lastTransmissionTime) => TransmissionTrigger ]_vars

\* C14, reached: a sampling trigger at 100 ms, a call 99 ms later that was
\* not one, and the time of the last trigger is still 100 ms.
C14_Witness ==
    /\ ev.fn = "update"
    /\ ~ev.fired
    /\ lastSensorReadTime = U32(0, SENSOR_READ_INTERVAL)
    /\ clock = U32(0, 2 * SENSOR_READ_INTERVAL - 1)

\* a call of updateSensorData or of transmitData has been made in this step
\* and its rate gate was closed
BlockedCall == ev' # ev /\ ~ev'.fired

\* C15: a call of updateSensorData or of transmitData whose interval has
\* not elapsed is a no-op: the Telemetry Record, the timestamps of the two
\* gates, the transport, what was transmitted and logged, and the flight
\* state are all as before the call.
C15_ClosedGateIsNoOp ==
    [][ BlockedCall
            => /\ UNCHANGED <<sensorData, lastSensorReadTime, lastTransmissionTime,
                              lastUpdateTime>>
               /\ UNCHANGED <<esp, air, loggedRow>>
               /\ FlightStateUnchanged ]_vars

\* at least interval milliseconds lie between last and now, counted modulo
\* 2^32: last + d = now (mod 2^32) for a d that is not below interval
ElapsedModulo(now, last, interval) ==
    LET d == Sub32(now, last)
    IN  /\ Add32(last, d) = now
        /\ ~Lt32(d, U32(0, interval))

\* C16: the gates take the elapsed time modulo 2^32: a call of
\* updateSensorData (of transmitData) is a trigger exactly when at least
\* 100 ms (500 ms) lie between the last trigger and the current time
\* counted modulo 2^32, also when the counter has overflowed in between and
\* the current time is the smaller number: it fires neither early nor never.
C16_ElapsedTimeModulo ==
    [][ /\ (ev' # ev /\ ev'.fn = "update")
            => (ev'.fired <=> ElapsedModulo(clock, lastSensorReadTime, SENSOR_READ_INTERVAL))
        /\ (ev' # ev /\ ev'.fn = "transmit")
            => (ev'.fired <=> ElapsedModulo(clock, lastTransmissionTime,
                                            TRANSMISSION_INTERVAL)) ]_vars

\* C16, reached: the counter has overflowed since both gates fired 200 ms
\* before the overflow; 499 ms after them, at 299 ms, the sampling gate has
\* fired again and the transmission gate has not.
C16_Witness ==
    /\ clock = U32(0, TRANSMISSION_INTERVAL - 1 - 200)
    /\ lastTransmissionTime = U32(HalfWord - 1, HalfWord - 200)
    /\ lastSensorReadTime = clock
    /\ ev.fn = "transmit"
    /\ ~ev.fired

\* C17: in every iteration of loop() the sampling step comes before the
\* transmission step: when transmitData is about to be called the last
\* gated call was that of updateSensorData, and transmitData is called only
\* then; so a record transmitted in an iteration is sensorData as the
\* sampling step of the same iteration left it.
C17_SamplingPrecedesTransmission ==
    [][ /\ AtStatement("transmitData")' => ev'.fn = "update"
        /\ (ev' # ev /\ ev'.fn = "transmit")
              => /\ ev.fn = "update"
                 /\ sensorData' = sensorData
                 /\ ev'.sent => air'.data = sensorData ]_vars

\* C17, reached: in the iteration entered at 1500 ms the sampling step has
\* assembled a sample and the transmission step has sent it.
C17_Witness ==
    /\ clock = U32(0, 1000 + TRANSMISSION_INTERVAL)
    /\ ev.fn = "transmit"
    /\ ev.sent
    /\ sensorData.timestamp = ToFloat(clock)
    /\ sensorData.acelerometro.sample = 1
    /\ air.data = sensorData

\* a call of transmitData, and one of sendFlightCommand, has been made in
\* this step, the peer was not registered and esp_now_add_peer has failed
FlightAddFailed == ev' # ev /\ ev'.fn = "transmit" /\ ev'.add = "failed"
GroundAddFailed == gtx' # gtx /\ gtx'.add = "failed"

\* C18: a call of transmitData in which the peer is not registered and
\* adding it fails hands no packet to esp_now_send and leaves the transport
\* as it was (one attempt to add, no second one), and the time of the last
\* transmission trigger is that of this call: every later call attempts to
\* add or to send only when 500 ms have passed since.  A call of
\* sendFlightCommand in which the peer is not registered and adding it
\* fails hands no packet to esp_now_send, registers no peer and uses no
\* sequence identifier.
C18_AddPeerFailureAbortsSend ==
    [][ /\ FlightAddFailed
            => /\ ~ev'.sent
               /\ UNCHANGED <<air, esp>>
               /\ lastTransmissionTime' = clock
        /\ (ev' # ev /\ ev'.fn = "transmit" /\ (ev'.add # "none" \/ ev'.sent))
            => ElapsedModulo(clock, lastTransmissionTime, TRANSMISSION_INTERVAL)
        /\ GroundAddFailed
            => /\ ~gtx'.sent
               /\ UNCHANGED <<gpeer, nextSequenceId>> ]_vars

\* C18, reached: the flight unit's attempt at 500 ms has failed to add the
\* peer and nothing has been transmitted; 499 ms later transmitData has
\* been called again and has attempted nothing; the ground unit's send has
\* failed to add the peer too and has sent nothing.
C18_Witness ==
    /\ lastTransmissionTime = U32(0, TRANSMISSION_INTERVAL)
    /\ clock = U32(0, 2 * TRANSMISSION_INTERVAL - 1)
    /\ ev.fn = "transmit"
    /\ ~ev.fired
    /\ ~esp.peer
    /\ ~air.sent
    /\ gtx.add = "failed"
    /\ ~gtx.sent
    /\ ~gpeer
    /\ nextSequenceId = 0

\* transmitData has called esp_now_send in this step, and so
\* handleCommunicationErrors with its result
SendStep == ev' # ev /\ ev'.fn = "transmit" /\ ev'.sent

\* C19: handleCommunicationErrors re-initialises the transport for
\* ESP_ERR_ESPNOW_NOT_INIT only.  For ESP_OK, ESP_ERR_ESPNOW_ARG,
\* ESP_ERR_ESPNOW_NO_MEM and every other result the transport is as
\* transmitData had it when it sent (the peer registered), no restart is
\* asked for, and the timestamps of the gates, the Telemetry Record and the
\* flight state are as transmitData left them; for
\* ESP_ERR_ESPNOW_NOT_INIT the library is initialised again, or the device
\* restarts.
C19_ReinitialisesOnlyWhenNotInitialised ==
    [][ SendStep
            => /\ ev'.result # ESP_ERR_ESPNOW_NOT_INIT
                    => /\ esp' = [esp EXCEPT !.peer = TRUE]
                       /\ ~esp'.restart
               /\ ev'.result = ESP_ERR_ESPNOW_NOT_INIT
                    => (esp'.restart \/ (esp'.init /\ esp'.sendCb))
               /\ lastTransmissionTime' = clock
               /\ UNCHANGED <<lastSensorReadTime, lastUpdateTime, sensorData, loggedRow>>
               /\ air'.data = sensorData
               /\ FlightStateUnchanged ]_vars

\* C19, reached: esp_now_send has answered ESP_ERR_ESPNOW_NO_MEM and the
\* transport is as setup() left it.
C19_Witness ==
    /\ ev.fn = "transmit"
    /\ ev.sent
    /\ ev.result = ESP_ERR_ESPNOW_NO_MEM
    /\ esp = EspUp
    /\ lastTransmissionTime = clock

\* C20: after esp_now_send has answered ESP_ERR_ESPNOW_NOT_INIT, unless the
\* device restarts, the library is initialised and the sending callback
\* and the flight unit's reception callback are registered again.  (The
\* peer is added by setupEspNow or, failing that, by the next call of
\* transmitData before it sends.)
C20_FullReinitialisation ==
    (ev.fn = "transmit" /\ ev.result = ESP_ERR_ESPNOW_NOT_INIT /\ ~esp.restart)
        => (esp.init /\ esp.sendCb /\ esp.recvCb)

\* sendFlightCommand has built a Command Record in this step (the calls
\* that stop at the peer build none, and leave the counter as it is)
BuildStep == nextSequenceId' # nextSequenceId

\* C22: nextSequenceId starts at 0 (or, in the behaviours that begin just
\* before the wrap, at 65535 - MaxSequenceId) and changes only when
\* sendFlightCommand builds a Command Record; the record built carries the
\* counter's value before the step and the counter becomes that value plus
\* 1 modulo 65536, so that the k-th record built carries (k - 1) mod 65536
\* and the record after the one carrying 65535 carries 0.
C22_SequenceCounter ==
    [][ /\ BuildStep
            => /\ gtx'.sent
               /\ SequenceIdOf(gtx'.bytes) = nextSequenceId
               /\ nextSequenceId' = (nextSequenceId + 1) % HalfWord
               /\ nextSequenceId' \in 0..(HalfWord - 1)
        /\ (gtx' # gtx /\ gtx'.sent) => BuildStep ]_vars

\* C22, reached: the record carrying 65535 has been built and delivered,
\* and the one sent after it carries 0.
C22_Witness ==
    /\ gtx.sent
    /\ SequenceIdOf(gtx.bytes) = 0
    /\ nextSequenceId = 1
    /\ rx.seen
    /\ rx.seq = HalfWord - 1

\* a step taken by the flight unit's command callback, the ground unit
\* sending nothing in it
DeliveryStep == RxStep /\ UNCHANGED gtxVars

\* C23: the sequence identifier of a Command Record plays no part in what
\* the flight unit does with it: whatever the identifier (repeated, lower
\* than the last one, or any other), a start-flight record received in
\* GROUND_STATE with the storage ready begins a session, an end-flight
\* record received in FLIGHT_ACTIVE ends the flight, and in every other
\* case the flight state is left as it is; so two records that differ in
\* their identifier only lead from the same state to the same state.
C23_SequenceIdIsAdvisory ==
    [][ (DeliveryStep /\ rx'.len = ControlCommandSize)
            => IF rx'.type = START_FLIGHT /\ currentFlightState = GROUND_STATE /\ sdReady
               THEN /\ Len(sdLog') = Len(sdLog) + 1
                    /\ sdLog'[Len(sdLog')].op = "begin"
                    /\ currentFlightState' =
                          (IF sdLog'[Len(sdLog')].opened THEN FLIGHT_ACTIVE ELSE GROUND_STATE)
               ELSE IF rx'.type = END_FLIGHT /\ currentFlightState = FLIGHT_ACTIVE
               THEN currentFlightState' = POST_FLIGHT /\ ~isFlightLogging'
               ELSE FlightStateUnchanged ]_vars

\* C23, reached: the ground unit has built one Command Record only, a
\* start-flight one; the flight unit has received it twice and has acted on
\* it both times (the log file could not be created the first time).
C23_Witness ==
    /\ nextSequenceId = HalfWord - MaxSequenceId
    /\ rx.seq = HalfWord - 1 - MaxSequenceId
    /\ Len(sdLog) = 2
    /\ sdLog[1].op = "begin" /\ ~sdLog[1].opened
    /\ sdLog[2].op = "begin" /\ sdLog[2].opened
    /\ currentFlightState = FLIGHT_ACTIVE

\* the library as esp_now_send found it in this step, in which transmitData
\* has called it
LibraryAtSend == EspAtSend([esp EXCEPT !.peer = TRUE], ev'.result)

C29_GpsFieldsCarryMatchingComponents ==
    sensorData.gps # ZeroSensorData.gps
        => \A i \in 1..Len(GpsIntegerFields) :
              sensorData.gps[i] = UtcDateTime[GpsIntegerFields[i]]

\* C21: once setup() has completed the loop keeps running whatever the
\* results of esp_now_send and of esp_now_add_peer and whatever is
\* received: while the device is in loop() no restart of the device has
\* been asked for (and so every statement of loop() is followed by the
\* next one).
C21_ForwardProgress ==
    pc \in 1..Len(LoopOrder) => ~esp.restart

\* the record r has been assembled by a sampling tick: its position block
\* and its sensor blocks have been written
Assembled(r) == r.gps # ZeroSensorData.gps /\ r.acelerometro # ZeroSensorData.acelerometro

\* C25: every packet handed to esp_now_send by transmitData carries a
\* record assembled by a completed sampling tick, never the zero-initialised
\* record sensorData starts as and never one that the sampling tick that
\* returned at the warm-up skip left unassembled.
C25_TransmittedRecordIsAssembled ==
    air.sent => Assembled(air.data)

\* a statement of loop() has been executed in this step
LoopStep == pc \in 1..Len(LoopOrder) /\ pc' # pc

SampledBefore == lastSensorReadTime # U32(0, 0) \/ Assembled(sensorData)

\* the fused angles after this step are those the complementary filter
\* gives from the angles before it, from a reading and from the time
\* elapsed since the last sampling tick
FusedOverLastInterval ==
    \E r \in Readings :
        /\ sensorData'.acelerometro.sample = r.sample
        /\ sensorData'.acelerometro.pitch =
              Fuse(sensorData.acelerometro.pitch, GyroX(r.sample),
                   Elapsed(clock, lastSensorReadTime), AccPitch(r.sample))
        /\ sensorData'.acelerometro.roll =
              Fuse(sensorData.acelerometro.roll, GyroY(r.sample),
                   Elapsed(clock, lastSensorReadTime), AccRoll(r.sample))

\* C24: the fusion is skipped on the first sampling tick and on no other:
\* the first tick leaves pitch and roll as they are, and every later tick
\* integrates over the time elapsed since the sampling tick before it.
C24_FusionSkippedOnFirstTickOnly ==
    [][ SamplingTrigger
            => IF SampledBefore
               THEN FusedOverLastInterval
               ELSE sensorData'.acelerometro = sensorData.acelerometro ]_vars

\* 0.98 * (fused + turned) + 0.02 * static, in whole degrees
Blend(fused, turned, static) ==
    MulAlpha(fused + turned) + ((100 - ALPHA_PERCENT) * static) \div 100

\* the fusion runs on this sampling tick: the time of a previous update is kept
FusionRuns == SamplingTrigger /\ lastUpdateTime # U32(0, 0)

\* the X and Y angular rates as the record carries them (gyroX, gyroY: the
\* readings g.gyro.x and g.gyro.y, in rad/s) and the static angles of the
\* same reading
RecordRateX(r) == GyroX(r.acelerometro.sample)
RecordRateY(r) == GyroY(r.acelerometro.sample)
StaticPitch(r) == AccPitch(r.acelerometro.sample)
StaticRoll(r)  == AccRoll(r.acelerometro.sample)

C31_SenderReceiverChecksumAgreement ==
    [][ DeliveryStep
            => /\ CommandLengthAccepted(rx'.len)
               /\ rx'.valid
               /\ isValid(gtx.bytes) ]_vars

\* the moves of the flight state: from GROUND_STATE to FLIGHT_ACTIVE and
\* from FLIGHT_ACTIVE to POST_FLIGHT
ForwardMoves == { <<GROUND_STATE, FLIGHT_ACTIVE>>, <<FLIGHT_ACTIVE, POST_FLIGHT>> }

\* C32: the flight state only moves along GROUND_STATE -> FLIGHT_ACTIVE ->
\* POST_FLIGHT: it is never PRE_FLIGHT, every change of it is one of the two
\* forward moves, POST_FLIGHT is never left, and a log file is created at
\* most once.
C32_FlightStateOnlyMovesForward ==
    [][ /\ currentFlightState # PRE_FLIGHT /\ currentFlightState' # PRE_FLIGHT
        /\ currentFlightState' # currentFlightState
              => <<currentFlightState, currentFlightState'>> \in ForwardMoves
        /\ currentFlightState = POST_FLIGHT => currentFlightState' = POST_FLIGHT
        /\ SessionsBegun(sdLog') <= 1 ]_vars

\* C32, reached: the flight is over, and a start-flight command received
\* after it has left the state POST_FLIGHT and begun no second session
C32_Witness ==
    /\ rx.len = ControlCommandSize /\ rx.type = START_FLIGHT
    /\ rx.pre = POST_FLIGHT
    /\ currentFlightState = POST_FLIGHT
    /\ Len(sdLog) = 2 /\ sdLog[1] = [op |-> "begin", opened |-> TRUE]
    /\ sdLog[2].op = "end"

\* C33: between two executions of the command callback, isFlightLogging is
\* true exactly when currentFlightState is FLIGHT_ACTIVE, whatever commands
\* were received and whether the storage operations succeeded or failed.
C33_LoggingIffFlightActive ==
    isFlightLogging <=> currentFlightState = FLIGHT_ACTIVE

\* C33, reached: the flight has ended with the end-of-flight marker not
\* written (the file could not be opened), and loop() has run on since
C33_Witness ==
    /\ currentFlightState = POST_FLIGHT
    /\ ~isFlightLogging
    /\ Len(sdLog) = 2 /\ sdLog[2] = [op |-> "end", opened |-> FALSE]
    /\ rx.type = END_FLIGHT /\ rx.pre = FLIGHT_ACTIVE
    /\ ev.fn = "update"

\* logToSD calls SD.open in this step
OpenStep == logCall.at = "checked" /\ logCall'.at # "checked"

\* logToSD writes its row in this step
WriteStep == logCall.at = "opened" /\ logCall'.at = "idle"

\* endFlightLog has written the end-of-flight marker
MarkerWritten == \E i \in 1..Len(sdLog) : sdLog[i] = [op |-> "end", opened |-> TRUE]

====
